---- MODULE Spec2Model ----
(***************************************************************************)
(* Usage aggregation engine of scripts/codex_usage_recalc_server.py:       *)
(* the provider-A (codex) and provider-B (claude) log parsers, the         *)
(* combiner and the range summarizer, recalc_dashboard and the /recalc     *)
(* handler threads that run it.                                            *)
(*                                                                         *)
(* Calendar dates are proleptic Gregorian ordinals (date.toordinal()),     *)
(* instants are whole hours since the start of ordinal day 0, in UTC.      *)
(***************************************************************************)
EXTENDS Integers, Sequences, FiniteSets, TLC

VARIABLES
    cx_pc,          \* _collect_codex_daily_totals: "glob" | "read" | "done" | "raised"
    cx_files,       \* files the rglob loop has finished: path -> lines read
    cx_path,        \* path of the file being parsed
    cx_lines,       \* lines of the current file read so far
    latest_total,   \* _parse_codex_session_usage's latest_total (None or an int)
    cx_totals,      \* _collect_codex_daily_totals's totals: date -> DailyTotals
    tz,             \* the system's local UTC offset, in hours
    cl_pc,          \* _collect_claude_daily_totals: "glob" | "read" | "done" | "raised"
    cl_files,       \* files the rglob loop has finished: stem -> lines read
    cl_stem,        \* session_scope: the stem of the file being read
    cl_lines,       \* lines of the current file read so far
    request_usage,  \* the dedup records, in insertion order (a Python dict)
    cl_totals,      \* _collect_claude_daily_totals's totals: date -> DailyTotals
    p_pc,           \* a second run over the same files, read in another order
    p_left,         \* second run: stem -> positions of the lines not yet read
    p_stem,         \* second run: session_scope
    p_order,        \* second run: the <<stem, position>> read so far, in order
    p_usage,        \* second run: request_usage
    p_totals,       \* second run: totals
    providers,      \* the daily mappings at hand (dict[date, DailyTotals])
    call,           \* the last call made on them and its arguments
    ret,            \* what that call returned
    clock,          \* dt.date.today(), as the system clock gives it
    disk,           \* the two log roots as recalc_dashboard's scans find them
    html_file,      \* content of DASHBOARD_HTML
    runs,           \* /recalc requests: handler thread -> its locals
    heap,           \* Python objects by identity: id -> dict or DailyTotals
    inputs,         \* ids of the mappings passed to a combiner / slice call
    made,           \* the call made on them
    result          \* id of the mapping the call returned (0: none yet)

codexVars == <<cx_pc, cx_files, cx_path, cx_lines, latest_total, cx_totals>>

claudeVars == <<tz, cl_pc, cl_files, cl_stem, cl_lines, request_usage, cl_totals>>

permVars == <<p_pc, p_left, p_stem, p_order, p_usage, p_totals>>

engineVars == <<providers, call, ret>>

recalcVars == <<clock, disk, html_file, runs>>

heapVars == <<heap, inputs, made, result>>

vars == <<codexVars, claudeVars, permVars, engineVars, recalcVars, heapVars>>

notCodex == <<claudeVars, permVars, engineVars, recalcVars, heapVars>>
notClaude == <<codexVars, permVars, engineVars, recalcVars, heapVars>>
notPerm == <<codexVars, engineVars, recalcVars, heapVars>>
notEngine == <<codexVars, claudeVars, permVars, recalcVars, heapVars>>
notRecalc == <<codexVars, claudeVars, permVars, engineVars, heapVars>>
notHeap == <<codexVars, claudeVars, permVars, engineVars, recalcVars>>

----------------------------------------------------------------------------
(* Bounds of the model. *)

\* total number of log lines one parser run reads
MaxLines == 3
\* the same, where a second run rereads the lines in every order
MaxPermLines == 2
\* number of mappings handed to _combine_daily_totals
MaxProviders == 3

----------------------------------------------------------------------------
(* JSON values as json.loads returns them.  A missing key and a JSON null   *)
(* are both None to dict.get, so JNull stands for either.                   *)

JInt(n) == [t |-> "int", n |-> n, s |-> ""]
JBool(b) == [t |-> "bool", n |-> IF b THEN 1 ELSE 0, s |-> ""]
JFloat == [t |-> "float", n |-> 0, s |-> ""]
JStr(s) == [t |-> "str", n |-> 0, s |-> s]
JNull == [t |-> "null", n |-> 0, s |-> ""]

\* isinstance(value, int): Python's bool is a subclass of int
IsInstanceInt(v) == v.t \in {"int", "bool"}

\* isinstance(value, str) and value
IsNonEmptyStr(v) == v.t = "str" /\ v.s # ""

\* _safe_int
SafeInt(value) == IF IsInstanceInt(value) /\ value.n >= 0 THEN value.n ELSE 0

\* Python's None / Optional[int]
None == [some |-> FALSE, v |-> 0]
Some(n) == [some |-> TRUE, v |-> n]

----------------------------------------------------------------------------
(* datetime.date: validity of (year, month, day) and the ordinal.           *)

IsLeap(y) == (y % 4 = 0) /\ ((y % 100 # 0) \/ (y % 400 = 0))

DaysInMonth(y, m) ==
    CASE m \in {1, 3, 5, 7, 8, 10, 12} -> 31
      [] m \in {4, 6, 9, 11} -> 30
      [] OTHER -> IF IsLeap(y) THEN 29 ELSE 28

\* dt.date(year, month, day) raises ValueError outside these ranges
IsValidDate(y, m, d) ==
    /\ y \in 1..9999
    /\ m \in 1..12
    /\ d >= 1
    /\ d <= DaysInMonth(y, m)

RECURSIVE DaysBeforeMonth(_, _)
DaysBeforeMonth(y, m) ==
    IF m <= 1 THEN 0 ELSE DaysInMonth(y, m - 1) + DaysBeforeMonth(y, m - 1)

ToOrdinal(y, m, d) ==
    (y - 1) * 365 + ((y - 1) \div 4) - ((y - 1) \div 100) + ((y - 1) \div 400)
        + DaysBeforeMonth(y, m) + d

\* DailyTotals(date=usage_date): sessions and total_tokens start at 0
NewDailyTotals == [sessions |-> 0, total_tokens |-> 0]

EmptyDaily == [d \in {} |-> NewDailyTotals]

\* totals.setdefault(usage_date, DailyTotals(date=usage_date)) followed by
\* in-place additions to the record it returns
AddToDate(totals, usage_date, ds, dt) ==
    LET cur == IF usage_date \in DOMAIN totals THEN totals[usage_date]
               ELSE NewDailyTotals
    IN [d \in DOMAIN totals \cup {usage_date} |->
            IF d = usage_date
            THEN [sessions |-> cur.sessions + ds,
                  total_tokens |-> cur.total_tokens + dt]
            ELSE totals[d]]

----------------------------------------------------------------------------
(* Provider-A (codex) input: session files under root/YYYY/MM/DD/.          *)

\* one path segment as int() sees it: a decimal number or not
Seg(n) == [num |-> TRUE, n |-> n]
NoNum == [num |-> FALSE, n |-> 0]

\* file_path.relative_to(root).parts: the number of parts, the first three
\* and the file's stem
CodexPath(parts, y, m, d, stem) ==
    [parts |-> parts, y |-> y, m |-> m, d |-> d, stem |-> stem]

\* the *.jsonl files that may exist under the sessions root
CodexPaths ==
    { CodexPath(4, Seg(2026), Seg(2), Seg(27), "session-a"),
      CodexPath(4, Seg(2026), Seg(2), Seg(27), "session-b"),
      CodexPath(5, Seg(2026), Seg(2), Seg(26), "session-c"),
      CodexPath(4, Seg(2026), Seg(2), Seg(30), "session-d"),
      CodexPath(4, Seg(2026), NoNum, Seg(27), "session-e"),
      CodexPath(3, Seg(2026), Seg(2), NoNum, "session-f") }

\* A line of a session file.  json: "blank" (empty after strip), "invalid"
\* (json.loads raises JSONDecodeError), "nonobject" (valid JSON that is an
\* array, number, string or null) or "object".  payload, info and ttu
\* (total_token_usage) give the shape of that field: "falsy" (missing, null,
\* {}, "", 0, []), "nondict" (a truthy value that is no object) or "dict".
CodexLine(json, type, payload, ptype, info, ttu, total) ==
    [json |-> json, type |-> type, payload |-> payload, ptype |-> ptype,
     info |-> info, ttu |-> ttu, total |-> total]

TokenCount(total) ==
    CodexLine("object", JStr("event_msg"), "dict", JStr("token_count"),
              "dict", "dict", total)

CodexLines ==
    { TokenCount(JInt(100)),
      TokenCount(JInt(250)),
      TokenCount(JInt(0 - 5)),
      TokenCount(JBool(TRUE)),
      TokenCount(JStr("250")),
      CodexLine("invalid", JNull, "falsy", JNull, "falsy", "falsy", JNull),
      CodexLine("nonobject", JNull, "falsy", JNull, "falsy", "falsy", JNull),
      CodexLine("object", JStr("event_msg"), "dict", JStr("agent_message"),
                "dict", "dict", JInt(100)),
      CodexLine("object", JStr("event_msg"), "falsy", JNull, "falsy", "falsy", JNull),
      CodexLine("object", JStr("event_msg"), "nondict", JNull, "falsy", "falsy", JNull),
      CodexLine("object", JStr("event_msg"), "dict", JStr("token_count"),
                "nondict", "falsy", JNull),
      CodexLine("object", JStr("event_msg"), "dict", JStr("token_count"),
                "dict", "nondict", JNull) }

----------------------------------------------------------------------------
(* _parse_codex_session_usage, one iteration of `for line in handle`:       *)
(* "raise" when an AttributeError leaves the loop, otherwise the new value  *)
(* of latest_total.                                                         *)

\* the value of `total` when the line reaches the isinstance test
CodexTotalOf(line) ==
    IF line.info = "dict" /\ line.ttu = "dict" THEN line.total ELSE JNull

CodexLineRaises(line) ==
    \/ line.json = "nonobject"
    \/ /\ line.json = "object"
       /\ line.type = JStr("event_msg")
       /\ \/ line.payload = "nondict"
          \/ /\ line.payload = "dict"
             /\ line.ptype = JStr("token_count")
             /\ \/ line.info = "nondict"
                \/ line.info = "dict" /\ line.ttu = "nondict"

CodexLineSkipped(line) ==
    \/ line.json \in {"blank", "invalid"}
    \/ line.type # JStr("event_msg")
    \/ line.payload # "dict"
    \/ line.ptype # JStr("token_count")

CodexAcceptsTotal(total) == IsInstanceInt(total)

\* a parser that keeps the largest snapshot of the file instead of the last
CodexStepKeepMax(latest, line) ==
    IF CodexLineSkipped(line) \/ ~CodexAcceptsTotal(CodexTotalOf(line)) THEN latest
    ELSE IF latest.some /\ latest.v >= CodexTotalOf(line).n THEN latest
         ELSE Some(CodexTotalOf(line).n)

CodexStep(latest, line) ==
    IF CodexLineSkipped(line) THEN latest
    ELSE IF CodexAcceptsTotal(CodexTotalOf(line))
         THEN Some(CodexTotalOf(line).n)
         ELSE latest

----------------------------------------------------------------------------
(* _collect_codex_daily_totals                                              *)

\* len(relative) < 4, or int() / dt.date() raising ValueError
CodexPathSkipped(p) ==
    \/ p.parts < 4
    \/ ~(p.y.num /\ p.m.num /\ p.d.num)
    \/ ~IsValidDate(p.y.n, p.m.n, p.d.n)

CodexPathDate(p) == ToOrdinal(p.y.n, p.m.n, p.d.n)

CodexFileEffect(totals, usage_date, usage_tokens) ==
    IF ~usage_tokens.some THEN totals
    ELSE AddToDate(totals, usage_date, 1, usage_tokens.v)

RECURSIVE SumOver(_, _)
\* sum of f[x] over the finite set S
SumOver(S, f) ==
    IF S = {} THEN 0
    ELSE LET x == CHOOSE y \in S : TRUE
         IN f[x] + SumOver(S \ {x}, f)

\* lines read from the files finished so far
LinesRead(files) == SumOver(DOMAIN files, [p \in DOMAIN files |-> Len(files[p].lines)])

NoFiles == [p \in {} |-> [lines |-> <<>>]]

CodexStart ==
    /\ cx_pc = "glob"
    /\ cx_files = NoFiles
    /\ cx_path = CodexPath(0, NoNum, NoNum, NoNum, "")
    /\ cx_lines = <<>>
    /\ latest_total = None
    /\ cx_totals = EmptyDaily

FileDone(files, p, lines) ==
    [q \in DOMAIN files \cup {p} |-> IF q = p THEN [lines |-> lines] ELSE files[q]]

\* the rglob loop yields a file whose path does not decode to a date:
\* `continue`, nothing of the run's state changes
CodexSkipFile ==
    /\ cx_pc = "glob"
    /\ \E p \in CodexPaths \ DOMAIN cx_files : CodexPathSkipped(p)
    /\ UNCHANGED <<cx_pc, cx_files, cx_path, cx_lines, latest_total, cx_totals>>
    /\ UNCHANGED notCodex

\* the rglob loop yields a dated file: _parse_codex_session_usage opens it
CodexOpenFile ==
    /\ cx_pc = "glob"
    /\ \E p \in CodexPaths \ DOMAIN cx_files :
        /\ ~CodexPathSkipped(p)
        /\ cx_path' = p
    /\ cx_pc' = "read"
    /\ cx_lines' = <<>>
    /\ latest_total' = None
    /\ UNCHANGED <<cx_files, cx_totals>>
    /\ UNCHANGED notCodex

\* one iteration of `for line in handle`
CodexReadLine ==
    /\ cx_pc = "read"
    /\ LinesRead(cx_files) + Len(cx_lines) < MaxLines
    /\ \E line \in CodexLines :
        /\ cx_lines' = Append(cx_lines, line)
        /\ IF CodexLineRaises(line)
           THEN /\ cx_pc' = "raised"
                /\ UNCHANGED latest_total
           ELSE /\ cx_pc' = "read"
                /\ latest_total' = CodexStep(latest_total, line)
    /\ UNCHANGED <<cx_files, cx_path, cx_totals>>
    /\ UNCHANGED notCodex

\* end of file: return latest_total, then lines 93-99
CodexEndOfFile ==
    /\ cx_pc = "read"
    /\ cx_totals' = CodexFileEffect(cx_totals, CodexPathDate(cx_path), latest_total)
    /\ cx_files' = FileDone(cx_files, cx_path, cx_lines)
    /\ cx_pc' = "glob"
    /\ UNCHANGED <<cx_path, cx_lines, latest_total>>
    /\ UNCHANGED notCodex

\* rglob is exhausted: return totals
CodexReturn ==
    /\ cx_pc = "glob"
    /\ cx_pc' = "done"
    /\ UNCHANGED <<cx_files, cx_path, cx_lines, latest_total, cx_totals>>
    /\ UNCHANGED notCodex

NextCodex ==
    \/ CodexSkipFile
    \/ CodexOpenFile
    \/ CodexReadLine
    \/ CodexEndOfFile
    \/ CodexReturn

----------------------------------------------------------------------------
(* Provider-B (claude) input: request-log files at any depth.               *)

\* A timestamp value.  kind: "nonstr" (missing, not a string, or ""),
\* "garbage" (a string fromisoformat rejects) or "iso": a wall-clock date
\* (ordinal) and hour followed by "Z", by an offset of off hours, or by
\* nothing ("naive").
Timestamp(kind, date, hour, zone, off) ==
    [kind |-> kind, date |-> date, hour |-> hour, zone |-> zone, off |-> off]

NoTimestamp == Timestamp("nonstr", 0, 0, "naive", 0)
GarbageTimestamp == Timestamp("garbage", 0, 0, "naive", 0)

\* "2026-02-27T03:00:00Z"
TsEarly == Timestamp("iso", ToOrdinal(2026, 2, 27), 3, "Z", 0)
\* "2026-02-28T01:00:00+05:00", the instant 2026-02-27T20:00:00Z
TsMiddle == Timestamp("iso", ToOrdinal(2026, 2, 28), 1, "offset", 5)
\* "2026-02-28T02:00:00", no offset
TsLate == Timestamp("iso", ToOrdinal(2026, 2, 28), 2, "naive", 0)

\* the offsets the local timezone may have
LocalOffsets == {0 - 8, 0, 9}

\* the stems of the *.jsonl files that may exist under the projects root
ClaudeStems == {"session-1", "session-2"}

\* A line of a request log.  json as for codex lines; message and usage give
\* the shape of event["message"] and message["usage"]: "falsy" (missing,
\* null, {} ...), "nondict" (truthy, no object) or "dict".
ClaudeLine(json, requestId, sessionId, timestamp, message, usage, it, cc, cr, ot) ==
    [json |-> json, requestId |-> requestId, sessionId |-> sessionId,
     timestamp |-> timestamp, message |-> message, usage |-> usage,
     input_tokens |-> it, cache_creation_input_tokens |-> cc,
     cache_read_input_tokens |-> cr, output_tokens |-> ot]

UsageLine(rid, sid, ts, it, cc, cr, ot) ==
    ClaudeLine("object", rid, sid, ts, "dict", "dict", it, cc, cr, ot)

ShapeLine(json, rid, ts, message, usage) ==
    ClaudeLine(json, rid, JStr("session-1"), ts, message, usage,
               JInt(5), JInt(5), JInt(5), JInt(5))

ClaudeLines ==
    { UsageLine(JStr("req-1"), JStr("session-1"), TsEarly,
                JInt(10), JInt(20), JInt(30), JInt(8)),
      UsageLine(JStr("req-1"), JStr("session-1"), TsMiddle,
                JInt(10), JInt(20), JInt(30), JInt(177)),
      UsageLine(JStr("req-1"), JStr("session-1"), TsLate,
                JInt(40), JFloat, JBool(TRUE), JInt(0 - 4)),
      UsageLine(JStr("req-2"), JStr("session-2"), TsEarly,
                JInt(1), JInt(2), JInt(3), JInt(4)),
      UsageLine(JStr("req-1"), JNull, TsMiddle,
                JInt(1), JInt(2), JInt(3), JInt(4)),
      ShapeLine("object", JStr("req-1"), TsLate, "falsy", "falsy"),
      ShapeLine("object", JStr("req-2"), TsMiddle, "dict", "falsy"),
      ShapeLine("object", JStr("req-1"), TsLate, "nondict", "falsy"),
      ShapeLine("object", JStr(""), TsLate, "dict", "dict"),
      ShapeLine("object", JStr("req-1"), GarbageTimestamp, "dict", "dict"),
      ShapeLine("nonobject", JNull, NoTimestamp, "falsy", "falsy") }

----------------------------------------------------------------------------
(* _parse_timestamp_local.  An aware datetime is the UTC instant (hours)    *)
(* and the UTC offset of its tzinfo.                                        *)

Aware(utc, off) == [some |-> TRUE, utc |-> utc, off |-> off]
NoDatetime == [some |-> FALSE, utc |-> 0, off |-> 0]

\* lines 109-110: a trailing "Z" becomes "+00:00"
NormalizeZ(value) ==
    IF value.zone = "Z" THEN [value EXCEPT !.zone = "offset", !.off = 0] ELSE value

\* lines 117-118: a naive datetime is taken as UTC; then the instant of
\* wall-clock time `date hour` at offset `off`
InstantOf(normalized) ==
    LET off == IF normalized.zone = "naive" THEN 0 ELSE normalized.off
    IN normalized.date * 24 + normalized.hour - off

ParseTimestampLocal(value, local) ==
    IF value.kind # "iso" THEN NoDatetime
    ELSE Aware(InstantOf(NormalizeZ(value)), local)

\* a date taken from the UTC instant, without the conversion to local time
DateOfUtc(stamp) == stamp.utc \div 24

\* datetime.date() of an aware datetime: the calendar date of its wall clock
DateOf(stamp) == (stamp.utc + stamp.off) \div 24

\* a merge that keeps the timestamp of the first sighting
MaxStampKeepFirst(a, b) == a

\* max() of two aware datetimes compares instants; the first wins a tie
MaxStamp(a, b) == IF b.utc > a.utc THEN b ELSE a

----------------------------------------------------------------------------
(* _collect_claude_daily_totals, the body of `for line in handle`           *)

ClaudeLineRaises(line) == line.json = "nonobject"

\* the `continue`s of lines 136-157
ClaudeLineSkipped(line, local) ==
    \/ line.json \in {"blank", "invalid"}
    \/ ~IsNonEmptyStr(line.requestId)
    \/ ~ParseTimestampLocal(line.timestamp, local).some
    \/ line.message = "nondict"
    \/ line.message = "dict" /\ line.usage = "nondict"

\* usage.get(name) on the usage dict the line ends up with
UsageGet(line, name) ==
    IF line.message = "dict" /\ line.usage = "dict" THEN line[name] ELSE JNull

\* lines 159-161
SessionIdOf(line, session_scope) ==
    IF IsNonEmptyStr(line.sessionId) THEN line.sessionId.s ELSE session_scope

Counters ==
    {"input_tokens", "cache_creation_input_tokens",
     "cache_read_input_tokens", "output_tokens"}

\* lines 172-179: the record of a first sighting
NewRequest(line, session_scope, local) ==
    [session_id |-> SessionIdOf(line, session_scope),
     request_id |-> line.requestId.s,
     timestamp |-> ParseTimestampLocal(line.timestamp, local),
     input_tokens |-> SafeInt(UsageGet(line, "input_tokens")),
     cache_creation_input_tokens |-> SafeInt(UsageGet(line, "cache_creation_input_tokens")),
     cache_read_input_tokens |-> SafeInt(UsageGet(line, "cache_read_input_tokens")),
     output_tokens |-> SafeInt(UsageGet(line, "output_tokens"))]

Max2(a, b) == IF b > a THEN b ELSE a

\* a merge that overwrites the stored record with the newest observation
MergeRequestKeepLast(current, seen) == seen

\* lines 182-192: a later sighting, `seen` being the line's NewRequest
MergeRequest(current, seen) ==
    [session_id |-> current.session_id,
     request_id |-> current.request_id,
     timestamp |-> MaxStamp(current.timestamp, seen.timestamp),
     input_tokens |-> Max2(current.input_tokens, seen.input_tokens),
     cache_creation_input_tokens |->
        Max2(current.cache_creation_input_tokens, seen.cache_creation_input_tokens),
     cache_read_input_tokens |->
        Max2(current.cache_read_input_tokens, seen.cache_read_input_tokens),
     output_tokens |-> Max2(current.output_tokens, seen.output_tokens)]

SameKey(r, q) == r.session_id = q.session_id /\ r.request_id = q.request_id

\* request_usage after one line that is neither skipped nor raising
ClaudeStep(usage, line, session_scope, local) ==
    LET seen == NewRequest(line, session_scope, local)
        at == { i \in 1..Len(usage) : SameKey(usage[i], seen) }
    IN IF at = {} THEN Append(usage, seen)
       ELSE [i \in 1..Len(usage) |->
                IF i \in at THEN MergeRequest(usage[i], seen) ELSE usage[i]]

----------------------------------------------------------------------------
(* lines 194-219: folding the dedup records into date buckets               *)

\* lines 203-208
RequestTotal(request) ==
    request.input_tokens + request.cache_creation_input_tokens
        + request.cache_read_input_tokens + request.output_tokens

\* the date bucket of a dedup record (line 201)
BucketOf(request) == DateOf(request.timestamp)

RECURSIVE FoldTokens(_, _)
\* `for request in request_usage.values()`: totals after the first n records
FoldTokens(usage, n) ==
    IF n = 0 THEN EmptyDaily
    ELSE AddToDate(FoldTokens(usage, n - 1), BucketOf(usage[n]), 0,
                   RequestTotal(usage[n]))

\* one member per dedup record instead of one per session
DailySessionsPerRequest(usage, usage_date) ==
    { <<usage[i].session_id, usage[i].request_id>> :
        i \in { j \in 1..Len(usage) : BucketOf(usage[j]) = usage_date } }

\* daily_sessions[usage_date] after the loop
DailySessions(usage, usage_date) ==
    { usage[i].session_id : i \in { j \in 1..Len(usage) : BucketOf(usage[j]) = usage_date } }

\* lines 215-217
SessionCount(sessions) == Cardinality(sessions)

ClaudeFold(usage) ==
    LET totals == FoldTokens(usage, Len(usage))
    IN [d \in DOMAIN totals |->
            [sessions |-> SessionCount(DailySessions(usage, d)),
             total_tokens |-> totals[d].total_tokens]]

----------------------------------------------------------------------------

ClaudeLinesRead(files) ==
    SumOver(DOMAIN files, [p \in DOMAIN files |-> Len(files[p].lines)])

ClaudeStart ==
    /\ tz \in LocalOffsets
    /\ cl_pc = "glob"
    /\ cl_files = [p \in {} |-> [lines |-> <<>>]]
    /\ cl_stem = ""
    /\ cl_lines = <<>>
    /\ request_usage = <<>>
    /\ cl_totals = EmptyDaily

ClaudeIdle ==
    /\ tz = 0
    /\ cl_pc = "idle"
    /\ cl_files = [p \in {} |-> [lines |-> <<>>]]
    /\ cl_stem = ""
    /\ cl_lines = <<>>
    /\ request_usage = <<>>
    /\ cl_totals = EmptyDaily

CodexIdle ==
    /\ cx_pc = "idle"
    /\ cx_files = NoFiles
    /\ cx_path = CodexPath(0, NoNum, NoNum, NoNum, "")
    /\ cx_lines = <<>>
    /\ latest_total = None
    /\ cx_totals = EmptyDaily

\* the rglob loop yields the next file
ClaudeOpenFile ==
    /\ cl_pc = "glob"
    /\ \E stem \in ClaudeStems \ DOMAIN cl_files : cl_stem' = stem
    /\ cl_pc' = "read"
    /\ cl_lines' = <<>>
    /\ UNCHANGED <<tz, cl_files, request_usage, cl_totals>>
    /\ UNCHANGED notClaude

\* one iteration of `for line in handle`, of a run that reads at most
\* `bound` lines
ClaudeReadLineUpTo(bound) ==
    /\ cl_pc = "read"
    /\ ClaudeLinesRead(cl_files) + Len(cl_lines) < bound
    /\ \E line \in ClaudeLines :
        /\ cl_lines' = Append(cl_lines, line)
        /\ IF ClaudeLineRaises(line)
           THEN /\ cl_pc' = "raised"
                /\ UNCHANGED request_usage
           ELSE /\ cl_pc' = "read"
                /\ request_usage' =
                       IF ClaudeLineSkipped(line, tz) THEN request_usage
                       ELSE ClaudeStep(request_usage, line, cl_stem, tz)
    /\ UNCHANGED <<tz, cl_files, cl_stem, cl_totals>>
    /\ UNCHANGED notClaude

ClaudeReadLine == ClaudeReadLineUpTo(MaxLines)

\* end of the file
ClaudeEndOfFile ==
    /\ cl_pc = "read"
    /\ cl_files' = FileDone(cl_files, cl_stem, cl_lines)
    /\ cl_pc' = "glob"
    /\ UNCHANGED <<tz, cl_stem, cl_lines, request_usage, cl_totals>>
    /\ UNCHANGED notClaude

\* rglob is exhausted: lines 194-219
ClaudeReturn ==
    /\ cl_pc = "glob"
    /\ cl_totals' = ClaudeFold(request_usage)
    /\ cl_pc' = "done"
    /\ UNCHANGED <<tz, cl_files, cl_stem, cl_lines, request_usage>>
    /\ UNCHANGED notClaude

NextClaude ==
    \/ ClaudeOpenFile
    \/ ClaudeReadLine
    \/ ClaudeEndOfFile
    \/ ClaudeReturn

----------------------------------------------------------------------------
(* A second run of _collect_claude_daily_totals over the files the first    *)
(* run read: rglob yields the files in any order, and each file holds the   *)
(* same lines in any order.                                                 *)

PermIdle ==
    /\ p_pc = "idle"
    /\ p_left = [f \in {} |-> {}]
    /\ p_stem = ""
    /\ p_order = <<>>
    /\ p_usage = <<>>
    /\ p_totals = EmptyDaily

\* the files on disk: those the first run finished, and the one it was
\* reading when an exception ended it
FilesOnDisk ==
    IF cl_pc = "raised" THEN FileDone(cl_files, cl_stem, cl_lines) ELSE cl_files

PermReadFirstRunLine == ClaudeReadLineUpTo(MaxPermLines)

\* the first run has ended; the second starts on the same root
PermStart ==
    /\ cl_pc \in {"done", "raised"}
    /\ p_pc = "idle"
    /\ p_pc' = "glob"
    /\ p_left' = [f \in DOMAIN FilesOnDisk |-> 1..Len(FilesOnDisk[f].lines)]
    /\ UNCHANGED <<p_stem, p_order, p_usage, p_totals>>
    /\ UNCHANGED <<claudeVars, notPerm>>

\* files whose lines the second run has not started on; an empty file
\* changes nothing whenever it is visited
PermOpenFile ==
    /\ p_pc = "glob"
    /\ \E stem \in DOMAIN p_left :
        /\ p_left[stem] # {}
        /\ p_stem' = stem
    /\ p_pc' = "read"
    /\ UNCHANGED <<p_left, p_order, p_usage, p_totals>>
    /\ UNCHANGED <<claudeVars, notPerm>>

\* one iteration of `for line in handle` on the permuted file
PermReadLine ==
    /\ p_pc = "read"
    /\ \E i \in p_left[p_stem] :
        LET line == FilesOnDisk[p_stem].lines[i]
        IN /\ p_left' = [p_left EXCEPT ![p_stem] = @ \ {i}]
           /\ p_order' = Append(p_order, <<p_stem, i>>)
           /\ IF ClaudeLineRaises(line)
              THEN /\ p_pc' = "raised"
                   /\ UNCHANGED p_usage
              ELSE /\ p_pc' = "read"
                   /\ p_usage' =
                          IF ClaudeLineSkipped(line, tz) THEN p_usage
                          ELSE ClaudeStep(p_usage, line, p_stem, tz)
    /\ UNCHANGED <<p_stem, p_totals>>
    /\ UNCHANGED <<claudeVars, notPerm>>

PermEndOfFile ==
    /\ p_pc = "read"
    /\ p_left[p_stem] = {}
    /\ p_pc' = "glob"
    /\ UNCHANGED <<p_left, p_stem, p_order, p_usage, p_totals>>
    /\ UNCHANGED <<claudeVars, notPerm>>

PermReturn ==
    /\ p_pc = "glob"
    /\ \A stem \in DOMAIN p_left : p_left[stem] = {}
    /\ p_totals' = ClaudeFold(p_usage)
    /\ p_pc' = "done"
    /\ UNCHANGED <<p_left, p_stem, p_order, p_usage>>
    /\ UNCHANGED <<claudeVars, notPerm>>

NextClaudePerm ==
    \/ ClaudeOpenFile
    \/ PermReadFirstRunLine
    \/ ClaudeEndOfFile
    \/ ClaudeReturn
    \/ PermStart
    \/ PermOpenFile
    \/ PermReadLine
    \/ PermEndOfFile
    \/ PermReturn

----------------------------------------------------------------------------
(* Combiner and range summarizer: pure functions of daily mappings.         *)

\* DailyTotals(date, sessions, total_tokens); the date is the mapping's key
Daily(sessions, total_tokens) == [sessions |-> sessions, total_tokens |-> total_tokens]

DayA == ToOrdinal(2026, 2, 26)
DayB == ToOrdinal(2026, 2, 27)
DayC == ToOrdinal(2026, 2, 28)

\* daily mappings as the parsers return them
DailySamples ==
    { EmptyDaily,
      [d \in {DayA, DayB} |-> IF d = DayB THEN Daily(2, 300) ELSE Daily(1, 50)],
      [d \in {DayB} |-> Daily(3, 700)],
      [d \in {DayA, DayC} |-> IF d = DayA THEN Daily(1, 0) ELSE Daily(4, 75)],
      [d \in {DayA, DayB, DayC} |-> Daily(1, 100)] }

\* from_date and to_date of a range
RangeDates == (DayA - 1)..(DayC + 1)

\* a combiner whose later provider replaces the entry of an earlier one
CombineEntryOverwrite(combined, usage_date, values) ==
    [d \in DOMAIN combined \cup {usage_date} |->
        IF d = usage_date THEN values ELSE combined[d]]

\* lines 227-229: one iteration of `for usage_date, values in provider.items()`
CombineEntry(combined, usage_date, values) ==
    AddToDate(combined, usage_date, values.sessions, values.total_tokens)

RECURSIVE CombineProvider(_, _, _)
\* lines 226-229: the inner loop over the dates of one provider not yet done
CombineProvider(combined, provider, todo) ==
    IF todo = {} THEN combined
    ELSE LET usage_date == CHOOSE d \in todo : TRUE
         IN CombineProvider(CombineEntry(combined, usage_date, provider[usage_date]),
                            provider, todo \ {usage_date})

RECURSIVE CombineFirst(_, _)
\* lines 225-229: combined after the first n providers
CombineFirst(args, n) ==
    IF n = 0 THEN EmptyDaily
    ELSE CombineProvider(CombineFirst(args, n - 1), args[n], DOMAIN args[n])

\* _combine_daily_totals(*providers)
CombineDailyTotals(args) == CombineFirst(args, Len(args))

\* a range test that leaves out to_date
InRangeExclusive(usage_date, from_date, to_date) ==
    from_date <= usage_date /\ usage_date < to_date

\* line 240 (and 250): from_date <= usage_date <= to_date
InRange(usage_date, from_date, to_date) ==
    from_date <= usage_date /\ usage_date <= to_date

RECURSIVE SumRangeLoop(_, _, _, _, _)
\* lines 239-242: (sessions, total_tokens) after the dates not in todo
SumRangeLoop(daily, todo, from_date, to_date, acc) ==
    IF todo = {} THEN acc
    ELSE LET usage_date == CHOOSE d \in todo : TRUE
             values == daily[usage_date]
         IN SumRangeLoop(daily, todo \ {usage_date}, from_date, to_date,
                         IF InRange(usage_date, from_date, to_date)
                         THEN <<acc[1] + values.sessions, acc[2] + values.total_tokens>>
                         ELSE acc)

\* _sum_range
SumRange(daily, from_date, to_date) ==
    IF to_date < from_date THEN <<0, 0>>
    ELSE SumRangeLoop(daily, DOMAIN daily, from_date, to_date, <<0, 0>>)

\* the sequences over 1..n in which each index occurs once
IndexOrders(n) ==
    { q \in [1..n -> 1..n] : \A i \in 1..n : \E j \in 1..n : q[j] = i }

NoCall == [op |-> "none", args |-> <<>>, split |-> 0, from_date |-> 0, to_date |-> 0]

EngineStart ==
    /\ \E n \in 0..MaxProviders : providers \in [1..n -> DailySamples]
    /\ call = NoCall
    /\ ret = EmptyDaily

EngineIdle ==
    /\ providers = <<>>
    /\ call = NoCall
    /\ ret = EmptyDaily

\* No call changes `providers`, so the calls are independent of one another
\* and each behaviour makes one.

\* _combine_daily_totals(*args), the mappings passed in any order
Combine ==
    /\ call = NoCall
    /\ \E q \in IndexOrders(Len(providers)) :
        LET args == [i \in 1..Len(providers) |-> providers[q[i]]]
        IN /\ call' = [NoCall EXCEPT !.op = "combine", !.args = args]
           /\ ret' = CombineDailyTotals(args)
    /\ UNCHANGED providers
    /\ UNCHANGED notEngine

\* combine(combine(first k), rest...)
CombineNestedLeft ==
    /\ call = NoCall
    /\ \E k \in 1..Len(providers) :
        /\ call' = [NoCall EXCEPT !.op = "combine_left", !.args = providers, !.split = k]
        /\ ret' = CombineDailyTotals(
                      <<CombineDailyTotals(SubSeq(providers, 1, k))>>
                          \o SubSeq(providers, k + 1, Len(providers)))
    /\ UNCHANGED providers
    /\ UNCHANGED notEngine

\* combine(first k..., combine(rest))
CombineNestedRight ==
    /\ call = NoCall
    /\ \E k \in 0..(Len(providers) - 1) :
        /\ call' = [NoCall EXCEPT !.op = "combine_right", !.args = providers, !.split = k]
        /\ ret' = CombineDailyTotals(
                      SubSeq(providers, 1, k)
                          \o <<CombineDailyTotals(SubSeq(providers, k + 1, Len(providers)))>>)
    /\ UNCHANGED providers
    /\ UNCHANGED notEngine

\* _sum_range(daily, from_date, to_date) on one of the mappings
SumRangeCall ==
    /\ call = NoCall
    /\ \E i \in 1..Len(providers) : \E from_date \in RangeDates : \E to_date \in RangeDates :
        /\ call' = [NoCall EXCEPT !.op = "sum_range", !.args = <<providers[i]>>,
                                  !.from_date = from_date, !.to_date = to_date]
        /\ ret' = SumRange(providers[i], from_date, to_date)
    /\ UNCHANGED providers
    /\ UNCHANGED notEngine

NextEngine ==
    \/ Combine
    \/ CombineNestedLeft
    \/ CombineNestedRight
    \/ SumRangeCall

----------------------------------------------------------------------------
(* recalc_dashboard: the data one run computes.                             *)

\* bound of the model: handler threads serving /recalc at the same time
MaxRuns == 2

\* date.fromordinal: the year and the month of an ordinal
YearOf(o) ==
    LET guess == (o * 400) \div 146097 + 1
    IN CHOOSE y \in (guess - 1)..(guess + 1) :
           ToOrdinal(y, 1, 1) <= o /\ o < ToOrdinal(y + 1, 1, 1)

MonthOf(o) ==
    LET y == YearOf(o)
        first == ToOrdinal(y, 1, 1)
    IN CHOOSE m \in 1..12 :
           /\ first + DaysBeforeMonth(y, m) <= o
           /\ o < first + DaysBeforeMonth(y, m) + DaysInMonth(y, m)

\* date.isoformat(): "YYYY-MM-DD", zero padded, kept as its three numbers
IsoFormat(o) ==
    LET y == YearOf(o)
        m == MonthOf(o)
    IN <<y, m, o - ToOrdinal(y, m, 1) + 1>>

\* a < b on isoformat strings: fields of fixed width compare left to right
IsoLess(a, b) ==
    \/ a[1] < b[1]
    \/ a[1] = b[1] /\ a[2] < b[2]
    \/ a[1] = b[1] /\ a[2] = b[2] /\ a[3] < b[3]

\* date.isoweekday(): Monday is 1, Sunday is 7; ordinal 1 is a Monday
IsoWeekday(o) == ((o + 6) % 7) + 1

\* a log root as a scan finds it: absent, or present with the mapping the
\* rglob loop builds from it, or present with a line the loop raises on
MissingRoot == [exists |-> FALSE, raises |-> FALSE, totals |-> EmptyDaily]
Root(totals) == [exists |-> TRUE, raises |-> FALSE, totals |-> totals]
RaisingRoot == [exists |-> TRUE, raises |-> TRUE, totals |-> EmptyDaily]

Returned(totals) == [raised |-> FALSE, totals |-> totals]
Raised == [raised |-> TRUE, totals |-> EmptyDaily]

\* a collector that fails on a missing root
CollectMissingRootRaises(root) ==
    IF ~root.exists \/ root.raises THEN Raised ELSE Returned(root.totals)

\* _collect_codex_daily_totals: lines 76-79, then the loop of lines 81-101
CollectCodexDailyTotals(root) ==
    IF ~root.exists THEN Returned(EmptyDaily)
    ELSE IF root.raises THEN Raised
    ELSE Returned(root.totals)

\* _collect_claude_daily_totals: lines 124-127, then lines 129-219
CollectClaudeDailyTotals(root) ==
    IF ~root.exists THEN Returned(EmptyDaily)
    ELSE IF root.raises THEN Raised
    ELSE Returned(root.totals)

\* _slice_daily
SliceDaily(daily, from_date, to_date) ==
    [usage_date \in { d \in DOMAIN daily : InRange(d, from_date, to_date) } |->
        daily[usage_date]]

\* a DailyTotals object: its date with its two counters
Item(daily, usage_date) ==
    [date |-> usage_date,
     sessions |-> daily[usage_date].sessions,
     total_tokens |-> daily[usage_date].total_tokens]

\* line 313, the sort key of an item: (-item.total_tokens, item.date.isoformat())
LeaderboardKey(item) == <<0 - item.total_tokens, IsoFormat(item.date)>>

\* a comparison that orders the dates of equal totals the other way round
LeaderboardKeyLessLatestFirst(a, b) ==
    \/ a[1] < b[1]
    \/ a[1] = b[1] /\ IsoLess(b[2], a[2])

\* a < b on two such keys
LeaderboardKeyLess(a, b) ==
    \/ a[1] < b[1]
    \/ a[1] = b[1] /\ IsoLess(a[2], b[2])

RECURSIVE SortedByKey(_, _, _)
\* sorted(...): the items from the smallest key to the largest
SortedByKey(daily, key, todo) ==
    IF todo = {} THEN <<>>
    ELSE LET first == CHOOSE d \in todo : \A e \in todo \ {d} :
                          LeaderboardKeyLess(key[d], key[e])
         IN <<Item(daily, first)>> \o SortedByKey(daily, key, todo \ {first})

\* line 313: sorted(daily.values(), key=...); the key is computed once an item
SortedLeaderboard(daily) ==
    SortedByKey(daily, [d \in DOMAIN daily |-> LeaderboardKey(Item(daily, d))],
                DOMAIN daily)

RECURSIVE RowsAppended(_, _)
\* lines 255-263: one row per entry of the mapping
RowsAppended(daily, todo) ==
    IF todo = {} THEN <<>>
    ELSE LET usage_date == CHOOSE d \in todo : TRUE
         IN <<[date |-> IsoFormat(usage_date),
               sessions |-> daily[usage_date].sessions,
               total_tokens |-> daily[usage_date].total_tokens]>>
                \o RowsAppended(daily, todo \ {usage_date})

RECURSIVE RowsSorted(_, _)
\* line 264: rows.sort(key=row["date"], reverse=True), over the positions
\* not yet placed
RowsSorted(rows, todo) ==
    IF todo = {} THEN <<>>
    ELSE LET first == CHOOSE i \in todo : \A j \in todo \ {i} :
                          IsoLess(rows[j].date, rows[i].date)
         IN <<rows[first]>> \o RowsSorted(rows, todo \ {first})

\* _rows_from_daily
RowsFromDaily(daily) ==
    LET rows == RowsAppended(daily, DOMAIN daily)
    IN RowsSorted(rows, 1..Len(rows))

RECURSIVE SumSeq(_, _)
\* sum(item.<field> for item in rows): field 1 is sessions, 2 total_tokens
SumSeq(rows, field) ==
    IF rows = <<>> THEN 0
    ELSE (IF field = 1 THEN Head(rows).sessions ELSE Head(rows).total_tokens)
             + SumSeq(Tail(rows), field)

\* max(values, default=0)
MaxDefault0(S) == IF S = {} THEN 0 ELSE CHOOSE x \in S : \A y \in S : y <= x

\* _summary_from_daily
SummaryFromDaily(daily) ==
    [ytd_total_tokens |-> SumOver(DOMAIN daily, [d \in DOMAIN daily |-> daily[d].total_tokens]),
     days_with_usage |-> Cardinality(DOMAIN daily),
     sessions |-> SumOver(DOMAIN daily, [d \in DOMAIN daily |-> daily[d].sessions]),
     highest_single_day |-> MaxDefault0({ daily[d].total_tokens : d \in DOMAIN daily })]

\* _providers_available: bool(rows) is "the list is not empty"
ProvidersAvailable(codex_rows, claude_rows) ==
    [codex |-> codex_rows # <<>>,
     claude |-> claude_rows # <<>>,
     combined |-> (codex_rows # <<>>) \/ (claude_rows # <<>>)]

\* one _sum_range call of lines 319-331 with the range it was given
RangeSum(daily, from_date, to_date) ==
    [from_date |-> from_date, to_date |-> to_date,
     sums |-> SumRange(daily, from_date, to_date)]

\* lines 321-331 with a previous week that starts on current_monday - 6
TrailingRangesShortWeek(daily, today) ==
    LET current_monday == today - (IsoWeekday(today) - 1)
        yesterday == today - 1
        prev_week_monday == current_monday - 6
        prev_week_sunday == current_monday - 1
        prev2_week_monday == prev_week_monday - 7
        prev2_week_sunday == prev_week_monday - 1
    IN [today |-> RangeSum(daily, today, today),
        current_week |-> RangeSum(daily, current_monday, yesterday),
        prev_week |-> RangeSum(daily, prev_week_monday, prev_week_sunday),
        prev2_week |-> RangeSum(daily, prev2_week_monday, prev2_week_sunday)]

\* lines 319-331
TrailingRanges(daily, today) ==
    LET current_monday == today - (IsoWeekday(today) - 1)
        yesterday == today - 1
        prev_week_monday == current_monday - 7
        prev_week_sunday == current_monday - 1
        prev2_week_monday == prev_week_monday - 7
        prev2_week_sunday == prev_week_monday - 1
    IN [today |-> RangeSum(daily, today, today),
        current_week |-> RangeSum(daily, current_monday, yesterday),
        prev_week |-> RangeSum(daily, prev_week_monday, prev_week_sunday),
        prev2_week |-> RangeSum(daily, prev2_week_monday, prev2_week_sunday)]

\* lines 369-375: the table body, one row per leaderboard item with its rank
RankedRows(rows) ==
    [idx \in 1..Len(rows) |->
        [rank |-> idx, date |-> IsoFormat(rows[idx].date),
         sessions |-> rows[idx].sessions, total_tokens |-> rows[idx].total_tokens]]

\* lines 302-395 and 415-432: everything a run computes from today and the
\* two mappings its scans returned
RecalcData(today, codex_daily_all, claude_daily_all) ==
    LET ytd_from == ToOrdinal(YearOf(today), 1, 1)
        combined_daily_all == CombineDailyTotals(<<codex_daily_all, claude_daily_all>>)
        codex_daily_ytd == SliceDaily(codex_daily_all, ytd_from, today)
        claude_daily_ytd == SliceDaily(claude_daily_all, ytd_from, today)
        combined_daily_ytd == SliceDaily(combined_daily_all, ytd_from, today)
        rows == SortedLeaderboard(combined_daily_ytd)
        days_count == Len(rows)
        sessions_total == SumSeq(rows, 1)
        ytd_total == SumSeq(rows, 2)
        highest == IF rows # <<>> THEN rows[1].total_tokens ELSE 0
        ranges == TrailingRanges(combined_daily_all, today)
        codex_rows_all == RowsFromDaily(codex_daily_all)
        claude_rows_all == RowsFromDaily(claude_daily_all)
        combined_rows_all == RowsFromDaily(combined_daily_all)
        providers_available == ProvidersAvailable(codex_rows_all, claude_rows_all)
    IN [today |-> today,
        codex_daily_all |-> codex_daily_all,
        claude_daily_all |-> claude_daily_all,
        combined_daily_all |-> combined_daily_all,
        combined_daily_ytd |-> combined_daily_ytd,
        rows |-> rows,
        stats_section |->
            [ytd_total |-> ytd_total, days_count |-> days_count,
             sessions_total |-> sessions_total, highest |-> highest,
             today |-> IsoFormat(today), ranges |-> ranges],
        tbody |-> RankedRows(rows),
        dataset_payload |->
            [providers_available |-> providers_available,
             codex |-> codex_rows_all,
             claude |-> claude_rows_all,
             combined |-> combined_rows_all],
        payload |->
            [ok |-> TRUE,
             today |-> IsoFormat(today),
             ytd_total_tokens |-> ytd_total,
             days_with_usage |-> days_count,
             sessions |-> sessions_total,
             providers_available |-> providers_available,
             codex |-> SummaryFromDaily(codex_daily_ytd),
             claude |-> SummaryFromDaily(claude_daily_ytd),
             combined |-> SummaryFromDaily(combined_daily_ytd)]]

----------------------------------------------------------------------------
(* The dashboard file and the /recalc handler threads.                      *)

\* The HTML text, as far as lines 397-412 look at it: the first
\* <section class="stats">, the first <tbody>, the usageDataset script and
\* where it sits, and whether a </main> occurs.
Section(content) == [present |-> TRUE, content |-> content]

\* what the dashboard shows before any log was read
BlankData == RecalcData(ToOrdinal(2025, 12, 28), EmptyDaily, EmptyDaily)

\* the empty text: no section, no table body, no script, no </main>
EmptyHtml ==
    [stats |-> [present |-> FALSE, content |-> BlankData.stats_section],
     tbody |-> [present |-> FALSE, content |-> <<>>],
     main |-> FALSE,
     dataset |-> [present |-> FALSE, content |-> BlankData.dataset_payload],
     dataset_at |-> "none"]

\* the dashboard page without and with a usageDataset script
PageWithoutDataset ==
    [stats |-> Section(BlankData.stats_section), tbody |-> Section(<<>>),
     main |-> TRUE, dataset |-> EmptyHtml.dataset, dataset_at |-> "none"]

PageWithDataset ==
    [PageWithoutDataset EXCEPT !.dataset = Section(BlankData.dataset_payload),
                               !.dataset_at = "main"]

InitialFiles == { PageWithoutDataset, PageWithDataset }

\* re.sub(pattern, repl, html, count=1): the first match is replaced, and a
\* text without a match is returned as it is
SubFirst(section, repl) ==
    IF section.present THEN Section(repl) ELSE section

\* _inject_usage_dataset
InjectUsageDataset(html, dataset) ==
    IF html.dataset.present
    THEN [html EXCEPT !.dataset = Section(dataset)]
    ELSE IF html.main
    THEN [html EXCEPT !.dataset = Section(dataset), !.dataset_at = "main"]
    ELSE [html EXCEPT !.dataset = Section(dataset), !.dataset_at = "end"]

\* lines 398-412
Render(html, data) ==
    InjectUsageDataset(
        [html EXCEPT !.stats = SubFirst(html.stats, data.stats_section),
                     !.tbody = SubFirst(html.tbody, data.tbody)],
        data.dataset_payload)

\* mappings the two scans can return.  A provider-A total can be negative.
RecalcSamples ==
    { EmptyDaily,
      [d \in {ToOrdinal(2025, 12, 31), ToOrdinal(2026, 1, 1), ToOrdinal(2026, 1, 3),
              ToOrdinal(2026, 1, 5)} |->
          IF d = ToOrdinal(2026, 1, 5) THEN Daily(1, 50) ELSE Daily(2, 300)],
      [d \in {ToOrdinal(2025, 12, 30), ToOrdinal(2026, 1, 1), ToOrdinal(2026, 1, 5),
              ToOrdinal(2026, 1, 7)} |->
          CASE d = ToOrdinal(2025, 12, 30) -> Daily(1, 300)
            [] d = ToOrdinal(2026, 1, 1) -> Daily(3, 700)
            [] d = ToOrdinal(2026, 1, 5) -> Daily(1, 250)
            [] OTHER -> Daily(2, 0)],
      [d \in {ToOrdinal(2026, 1, 2)} |-> Daily(1, 0 - 5)],
      [d \in {ToOrdinal(2025, 12, 9), ToOrdinal(2025, 12, 15), ToOrdinal(2025, 12, 21),
              ToOrdinal(2025, 12, 22), ToOrdinal(2025, 12, 28), ToOrdinal(2025, 12, 29),
              ToOrdinal(2026, 1, 4), ToOrdinal(2026, 1, 11), ToOrdinal(2026, 1, 12)} |->
          Daily(1, 10 + (d % 7))] }

\* the roots a scan can meet
RecalcRoots == {MissingRoot, RaisingRoot} \cup { Root(t) : t \in RecalcSamples }

\* two weeks of values of today, Monday 2025-12-29 to Sunday 2026-01-11
Todays == ToOrdinal(2025, 12, 29)..ToOrdinal(2026, 1, 11)

\* a handler thread that has not been given its request yet
IdleRun ==
    [pc |-> "idle", data |-> BlankData, html |-> EmptyHtml,
     status |-> 0, payload |-> BlankData.payload]

RecalcIdle ==
    /\ clock = 0
    /\ disk = [codex |-> MissingRoot, claude |-> MissingRoot]
    /\ html_file = EmptyHtml
    /\ runs = <<>>

\* one /recalc request, any log roots, any today
RecalcStart ==
    /\ clock \in Todays
    /\ disk \in [codex : RecalcRoots, claude : RecalcRoots]
    /\ html_file \in InitialFiles
    /\ runs = [r \in 1..1 |-> IdleRun]

\* the days the clock shows while concurrent requests are served
ServerDays == ToOrdinal(2025, 12, 31)..ToOrdinal(2026, 1, 1)

\* MaxRuns requests served by ThreadingHTTPServer, one thread each, over
\* log roots that do not change
ServerStart ==
    /\ clock = ToOrdinal(2025, 12, 31)
    /\ disk \in [codex : {MissingRoot} \cup
                     { Root(t) : t \in { u \in RecalcSamples :
                                            DOMAIN u = {ToOrdinal(2026, 1, 2)} } },
                 claude : {RaisingRoot} \cup
                     { Root(t) : t \in { u \in RecalcSamples :
                                            ToOrdinal(2025, 12, 31) \in DOMAIN u } }]
    /\ html_file \in InitialFiles
    /\ runs = [r \in 1..MaxRuns |-> IdleRun]

\* midnight
ClockTick ==
    /\ runs # <<>>
    /\ clock < ToOrdinal(2026, 1, 1)
    /\ clock' = clock + 1
    /\ UNCHANGED <<disk, html_file, runs>>
    /\ UNCHANGED notRecalc

\* lines 302-395: today, the two scans and everything computed from them;
\* an exception of a scan ends recalc_dashboard
RecalcCompute(r) ==
    /\ runs[r].pc = "idle"
    /\ LET codex == CollectCodexDailyTotals(disk.codex)
           claude == CollectClaudeDailyTotals(disk.claude)
       IN IF codex.raised \/ claude.raised
          THEN runs' = [runs EXCEPT ![r].pc = "failed"]
          ELSE runs' = [runs EXCEPT ![r].pc = "computed",
                                    ![r].data = RecalcData(clock, codex.totals, claude.totals)]
    /\ UNCHANGED <<clock, disk, html_file>>
    /\ UNCHANGED notRecalc

\* lines 397-412: read_text, then the three substitutions on the local text
RecalcReadHtml(r) ==
    /\ runs[r].pc = "computed"
    /\ runs' = [runs EXCEPT ![r].pc = "rendered",
                            ![r].html = Render(html_file, runs[r].data)]
    /\ UNCHANGED <<clock, disk, html_file>>
    /\ UNCHANGED notRecalc

\* line 413, write_text: open(path, "w") truncates the file
RecalcOpenForWrite(r) ==
    /\ runs[r].pc = "rendered"
    /\ html_file' = EmptyHtml
    /\ runs' = [runs EXCEPT ![r].pc = "writing"]
    /\ UNCHANGED <<clock, disk>>
    /\ UNCHANGED notRecalc

\* line 413, write_text: the text is written and the file closed
RecalcWrite(r) ==
    /\ runs[r].pc = "writing"
    /\ html_file' = runs[r].html
    /\ runs' = [runs EXCEPT ![r].pc = "written"]
    /\ UNCHANGED <<clock, disk>>
    /\ UNCHANGED notRecalc

\* lines 415-432 and 498-499: the payload goes out with status 200
RecalcRespond(r) ==
    /\ runs[r].pc = "written"
    /\ runs' = [runs EXCEPT ![r].pc = "done", ![r].status = 200,
                            ![r].payload = runs[r].data.payload]
    /\ UNCHANGED <<clock, disk, html_file>>
    /\ UNCHANGED notRecalc

\* lines 500-509: do_GET turns the exception into a 500 "recalc_failed"
RecalcFail(r) ==
    /\ runs[r].pc = "failed"
    /\ runs' = [runs EXCEPT ![r].pc = "done", ![r].status = 500]
    /\ UNCHANGED <<clock, disk, html_file>>
    /\ UNCHANGED notRecalc

NextRecalc ==
    \/ ClockTick
    \/ \E r \in DOMAIN runs : RecalcCompute(r)
    \/ \E r \in DOMAIN runs : RecalcReadHtml(r)
    \/ \E r \in DOMAIN runs : RecalcOpenForWrite(r)
    \/ \E r \in DOMAIN runs : RecalcWrite(r)
    \/ \E r \in DOMAIN runs : RecalcRespond(r)
    \/ \E r \in DOMAIN runs : RecalcFail(r)

----------------------------------------------------------------------------
(* _combine_daily_totals and _slice_daily on objects with identity.         *)

\* a dict[date, DailyTotals]: its keys with the ids of its values
DictObject(items) == [kind |-> "dict", items |-> items]

\* a DailyTotals object
DailyTotalsObject(date, sessions, total_tokens) ==
    [kind |-> "DailyTotals", date |-> date, sessions |-> sessions,
     total_tokens |-> total_tokens]

\* the provider tables before any call: four records, then a table of
\* DayA and DayB, a table of DayB and DayC, and an empty table
ProviderHeap ==
    << DailyTotalsObject(DayA, 1, 50),
       DailyTotalsObject(DayB, 2, 300),
       DailyTotalsObject(DayB, 3, 700),
       DailyTotalsObject(DayC, 4, 75),
       DictObject([d \in {DayA, DayB} |-> IF d = DayA THEN 1 ELSE 2]),
       DictObject([d \in {DayB, DayC} |-> IF d = DayB THEN 3 ELSE 4]),
       DictObject([d \in {} |-> 0]) >>

ProviderTables == { id \in DOMAIN ProviderHeap : ProviderHeap[id].kind = "dict" }

\* from_date and to_date of a slice
SliceDates == DayA..DayC

\* combined.setdefault(usage_date, values): the input's record is stored
HeapCombineEntryShared(h, combined, usage_date, values) ==
    LET present == usage_date \in DOMAIN h[combined].items
        daily == IF present THEN h[combined].items[usage_date] ELSE values
        stored == IF present THEN h
                  ELSE [h EXCEPT ![combined].items =
                           [d \in DOMAIN h[combined].items \cup {usage_date} |->
                               IF d = usage_date THEN values ELSE h[combined].items[d]]]
        added == [stored EXCEPT ![daily].sessions =
                                    stored[daily].sessions + stored[values].sessions]
    IN [added EXCEPT ![daily].total_tokens =
                         added[daily].total_tokens + added[values].total_tokens]

\* lines 227-229 on the heap h: DailyTotals(date=usage_date) is built, then
\* setdefault returns the record stored under usage_date, the new one if
\* there was none, and the two += update that record in place
HeapCombineEntry(h, combined, usage_date, values) ==
    LET built == Append(h, DailyTotalsObject(usage_date, 0, 0))
        present == usage_date \in DOMAIN h[combined].items
        daily == IF present THEN h[combined].items[usage_date] ELSE Len(built)
        stored == IF present THEN built
                  ELSE [built EXCEPT ![combined].items =
                           [d \in DOMAIN h[combined].items \cup {usage_date} |->
                               IF d = usage_date THEN daily ELSE h[combined].items[d]]]
        added == [stored EXCEPT ![daily].sessions =
                                    stored[daily].sessions + stored[values].sessions]
    IN [added EXCEPT ![daily].total_tokens =
                         added[daily].total_tokens + added[values].total_tokens]

RECURSIVE HeapCombineProvider(_, _, _, _)
\* lines 226-229: the inner loop over the dates of one provider not yet done
HeapCombineProvider(h, combined, provider, todo) ==
    IF todo = {} THEN h
    ELSE LET usage_date == CHOOSE d \in todo : TRUE
         IN HeapCombineProvider(
                HeapCombineEntry(h, combined, usage_date, h[provider].items[usage_date]),
                combined, provider, todo \ {usage_date})

RECURSIVE HeapCombineFirst(_, _, _, _)
\* lines 225-229: the heap after the first n providers
HeapCombineFirst(h, combined, args, n) ==
    IF n = 0 THEN h
    ELSE LET before == HeapCombineFirst(h, combined, args, n - 1)
         IN HeapCombineProvider(before, combined, args[n],
                                DOMAIN before[args[n]].items)

\* _combine_daily_totals(*args): line 223 makes the dict, whose id is
\* Len(h) + 1, and line 231 returns it
HeapCombineDailyTotals(h, args) ==
    HeapCombineFirst(Append(h, DictObject([d \in {} |-> 0])), Len(h) + 1, args, Len(args))

\* _slice_daily: a new dict, id Len(h) + 1, of the values in range
HeapSliceDaily(h, daily, from_date, to_date) ==
    Append(h, DictObject(
        [usage_date \in { d \in DOMAIN h[daily].items : InRange(d, from_date, to_date) } |->
            h[daily].items[usage_date]]))

NoHeapCall ==
    [combined |-> 0, again |-> 0, sliced |-> 0, slice_of |-> 0,
     from_date |-> 0, to_date |-> 0, mutated |-> 0]

HeapIdle ==
    /\ heap = <<>>
    /\ inputs = <<>>
    /\ made = NoHeapCall
    /\ result = 0

\* some of the provider tables, a table possibly more than once
HeapStart ==
    /\ heap = ProviderHeap
    /\ \E n \in 0..MaxProviders : inputs \in [1..n -> ProviderTables]
    /\ made = NoHeapCall
    /\ result = 0

\* combined = _combine_daily_totals(*inputs)
HeapCombine ==
    /\ made.combined = 0
    /\ heap' = HeapCombineDailyTotals(heap, inputs)
    /\ made' = [made EXCEPT !.combined = Len(heap) + 1]
    /\ result' = Len(heap) + 1
    /\ UNCHANGED inputs
    /\ UNCHANGED notHeap

\* the same call once more
HeapCombineAgain ==
    /\ made.combined # 0
    /\ made.again = 0
    /\ heap' = HeapCombineDailyTotals(heap, inputs)
    /\ made' = [made EXCEPT !.again = Len(heap) + 1]
    /\ result' = Len(heap) + 1
    /\ UNCHANGED inputs
    /\ UNCHANGED notHeap

\* sliced = _slice_daily(inputs[i], from_date, to_date)
HeapSlice ==
    /\ made.sliced = 0
    /\ \E i \in 1..Len(inputs) : \E from_date \in SliceDates : \E to_date \in SliceDates :
        /\ heap' = HeapSliceDaily(heap, inputs[i], from_date, to_date)
        /\ made' = [made EXCEPT !.sliced = Len(heap) + 1, !.slice_of = inputs[i],
                                 !.from_date = from_date, !.to_date = to_date]
    /\ result' = Len(heap) + 1
    /\ UNCHANGED inputs
    /\ UNCHANGED notHeap

\* the caller changes a record of a mapping it was returned
HeapMutateResult ==
    /\ made.mutated = 0
    /\ \E returned \in {made.combined, made.again, made.sliced} \ {0} :
        \E usage_date \in DOMAIN heap[returned].items :
            LET values == heap[returned].items[usage_date]
            IN /\ heap' = [heap EXCEPT ![values].total_tokens = heap[values].total_tokens + 1000]
               /\ made' = [made EXCEPT !.mutated = values]
    /\ UNCHANGED <<inputs, result>>
    /\ UNCHANGED notHeap

NextHeap ==
    \/ HeapCombine
    \/ HeapCombineAgain
    \/ HeapSlice
    \/ HeapMutateResult

----------------------------------------------------------------------------
(* Specifications.                                                          *)

\* one run of _collect_codex_daily_totals
InitCodex == CodexStart /\ ClaudeIdle /\ PermIdle /\ EngineIdle /\ RecalcIdle /\ HeapIdle

SpecCodex == InitCodex /\ [][NextCodex]_vars

\* one run of _collect_claude_daily_totals
InitClaude == ClaudeStart /\ CodexIdle /\ PermIdle /\ EngineIdle /\ RecalcIdle /\ HeapIdle

SpecClaude == InitClaude /\ [][NextClaude]_vars

\* two runs of _collect_claude_daily_totals over the same lines
SpecClaudePerm == InitClaude /\ [][NextClaudePerm]_vars

\* calls of the combiner and the range summarizer on given mappings
InitEngine == EngineStart /\ CodexIdle /\ ClaudeIdle /\ PermIdle /\ RecalcIdle /\ HeapIdle

SpecEngine == InitEngine /\ [][NextEngine]_vars

\* one run of recalc_dashboard behind one /recalc request
InitRecalc ==
    RecalcStart /\ CodexIdle /\ ClaudeIdle /\ PermIdle /\ EngineIdle /\ HeapIdle

SpecRecalc == InitRecalc /\ [][NextRecalc]_vars

\* concurrent /recalc requests
InitServer ==
    ServerStart /\ CodexIdle /\ ClaudeIdle /\ PermIdle /\ EngineIdle /\ HeapIdle

SpecServer == InitServer /\ [][NextRecalc]_vars

\* calls of the combiner and of _slice_daily on provider tables in memory
InitHeap ==
    HeapStart /\ CodexIdle /\ ClaudeIdle /\ PermIdle /\ EngineIdle /\ RecalcIdle

SpecHeap == InitHeap /\ [][NextHeap]_vars

----------------------------------------------------------------------------
(* Provider-A properties.                                                   *)

\* positions of the valid token_count snapshots of a file: an object of type
\* event_msg whose payload is an object of type token_count carrying
\* info.total_token_usage.total_tokens as an integer
ValidSnapshotAt(lines) ==
    { i \in 1..Len(lines) :
        /\ lines[i].json = "object"
        /\ lines[i].type = JStr("event_msg")
        /\ lines[i].payload = "dict"
        /\ lines[i].ptype = JStr("token_count")
        /\ lines[i].info = "dict"
        /\ lines[i].ttu = "dict"
        /\ lines[i].total.t \in {"int", "bool"} }

LastOf(S) == CHOOSE i \in S : \A j \in S : j <= i

\* the session files under date D's path that hold a valid snapshot
CodexFilesOn(D) ==
    { p \in DOMAIN cx_files :
        CodexPathDate(p) = D /\ ValidSnapshotAt(cx_files[p].lines) # {} }

CodexLastSnapshot ==
    [p \in DOMAIN cx_files |->
        IF ValidSnapshotAt(cx_files[p].lines) = {} THEN 0
        ELSE cx_files[p].lines[LastOf(ValidSnapshotAt(cx_files[p].lines))].total.n]

CodexDates == { CodexPathDate(p) : p \in DOMAIN cx_files }

\* C1: the codex result has an entry for date D iff some session file under
\* D's path holds a valid token_count snapshot; sessions is the number of
\* such files and total_tokens the sum of each such file's LAST valid
\* snapshot, so a file without a valid snapshot adds nothing, not even an
\* entry.
C1_CodexLastSnapshotPerFile ==
    cx_pc = "done" =>
        /\ DOMAIN cx_totals = { D \in CodexDates : CodexFilesOn(D) # {} }
        /\ \A D \in DOMAIN cx_totals :
            /\ cx_totals[D].sessions = Cardinality(CodexFilesOn(D))
            /\ cx_totals[D].total_tokens = SumOver(CodexFilesOn(D), CodexLastSnapshot)

\* a finished run in which one file held two valid snapshots, the later one
\* smaller, and another date had only a file without any valid snapshot
C1_Witness ==
    /\ cx_pc = "done"
    /\ \E p \in DOMAIN cx_files :
        /\ Cardinality(ValidSnapshotAt(cx_files[p].lines)) >= 2
        /\ \E i \in ValidSnapshotAt(cx_files[p].lines) :
            cx_files[p].lines[i].total.n > CodexLastSnapshot[p]
    /\ \E q \in DOMAIN cx_files :
        /\ Len(cx_files[q].lines) > 0
        /\ CodexFilesOn(CodexPathDate(q)) = {}
        /\ CodexPathDate(q) \notin DOMAIN cx_totals

\* C8 (as claimed): no exception escapes either parser, whatever the lines
\* hold: a line that is no JSON, no JSON object, or an object with a
\* wrong-typed field is skipped and the run goes on.
C8_NoExceptionEscapes == cx_pc # "raised" /\ cl_pc # "raised"

\* C10 (as claimed): every DailyTotals entry a parser produces has
\* sessions >= 0 and total_tokens >= 0, whatever the log holds.
C10_TotalsNonNegative ==
    /\ \A D \in DOMAIN cx_totals :
        cx_totals[D].sessions >= 0 /\ cx_totals[D].total_tokens >= 0
    /\ \A D \in DOMAIN cl_totals :
        cl_totals[D].sessions >= 0 /\ cl_totals[D].total_tokens >= 0

---------------------------------------------------------------------------------------------------------------------------------------------------
(* Provider-B properties, stated over the lines the run has read.           *)

\* the lines read: <<stem, position>>
ClaudeRead ==
    UNION { { <<f, i>> : i \in 1..Len(cl_files[f].lines) } : f \in DOMAIN cl_files }

LineAt(o) == cl_files[o[1]].lines[o[2]]

\* the line is one the parser takes as an observation of a request
IsObservation(line) ==
    /\ line.json = "object"
    /\ line.requestId.t = "str"
    /\ line.requestId.s # ""
    /\ line.timestamp.kind = "iso"
    /\ line.message # "nondict"
    /\ line.usage # "nondict" \/ line.message = "falsy"

\* a counter as observed: a non-negative integer, anything else zero
Observed(line, name) ==
    IF /\ line.message = "dict"
       /\ line.usage = "dict"
       /\ line[name].t \in {"int", "bool"}
       /\ line[name].n >= 0
    THEN line[name].n
    ELSE 0

\* the instant a timestamp names: "Z" is +00:00, no offset is UTC
InstantObserved(stamp) ==
    stamp.date * 24 + stamp.hour - (IF stamp.zone = "offset" THEN stamp.off ELSE 0)

\* the local calendar date of an instant
LocalDate(instant) == (instant + tz) \div 24

\* an observation: where it was read, its (sessionId-or-file-stem,
\* requestId) key, its four counters and its instant
Observation(o) ==
    LET line == LineAt(o)
    IN [at |-> o,
        key |-> << IF line.sessionId.t = "str" /\ line.sessionId.s # ""
                   THEN line.sessionId.s ELSE o[1],
                   line.requestId.s >>,
        input_tokens |-> Observed(line, "input_tokens"),
        cache_creation_input_tokens |-> Observed(line, "cache_creation_input_tokens"),
        cache_read_input_tokens |-> Observed(line, "cache_read_input_tokens"),
        output_tokens |-> Observed(line, "output_tokens"),
        instant |-> InstantObserved(line.timestamp),
        complete |-> line.message = "dict" /\ line.usage = "dict"]

Observations == { Observation(o) : o \in { q \in ClaudeRead : IsObservation(LineAt(q)) } }

KeysOf(obs) == { r.key : r \in obs }

MaxOf(S) == CHOOSE m \in S : \A n \in S : n <= m

\* the maximum of one counter over all observations of key k
MaxObserved(obs, k, name) == MaxOf({ r[name] : r \in { q \in obs : q.key = k } })

\* per key, the sum of the four maxima
ContributionOf(obs) ==
    [k \in KeysOf(obs) |->
        MaxObserved(obs, k, "input_tokens")
            + MaxObserved(obs, k, "cache_creation_input_tokens")
            + MaxObserved(obs, k, "cache_read_input_tokens")
            + MaxObserved(obs, k, "output_tokens")]

\* per key, the local date of the latest timestamp among its observations
LatestDateOf(obs) ==
    [k \in KeysOf(obs) |-> LocalDate(MaxObserved(obs, k, "instant"))]

RecordsOf(k) ==
    { i \in 1..Len(request_usage) :
        request_usage[i].session_id = k[1] /\ request_usage[i].request_id = k[2] }

\* C2: the observations of one (session, requestId) key collapse into
\* exactly one merged record; each of its four counters is the maximum of
\* that counter over all observations of the key, taken per field; and the
\* key adds the sum of the four maxima exactly once to total_tokens.
C2_MergedRecordIsFieldwiseMax ==
    cl_pc = "done" =>
        LET obs == Observations
            keys == KeysOf(obs)
        IN /\ Len(request_usage) = Cardinality(keys)
           /\ \A k \in keys :
                /\ Cardinality(RecordsOf(k)) = 1
                /\ \A i \in RecordsOf(k) : \A name \in Counters :
                    request_usage[i][name] = MaxObserved(obs, k, name)
           /\ SumOver(DOMAIN cl_totals,
                      [D \in DOMAIN cl_totals |-> cl_totals[D].total_tokens])
                 = SumOver(keys, ContributionOf(obs))

\* a finished run with a key observed at least twice whose four maxima are
\* carried by no single observation
C2_Witness ==
    /\ cl_pc = "done"
    /\ LET obs == Observations
       IN \E k \in KeysOf(obs) :
            /\ Cardinality({ r \in obs : r.key = k }) >= 2
            /\ \A r \in { q \in obs : q.key = k } :
                \E name \in Counters : r[name] < MaxObserved(obs, k, name)

\* C4: sessions on date D is the number of distinct session identifiers
\* among the deduplicated requests bucketed on D (not the number of lines,
\* not the number of requests), each date counting a session once.
C4_SessionsAreDistinctSessionIds ==
    cl_pc = "done" =>
        LET obs == Observations
            latest == LatestDateOf(obs)
        IN \A D \in DOMAIN cl_totals :
            cl_totals[D].sessions
                = Cardinality({ k[1] : k \in { q \in KeysOf(obs) : latest[q] = D } })

\* a finished run with a date that has more lines than requests and more
\* requests than sessions
C4_Witness ==
    /\ cl_pc = "done"
    /\ LET obs == Observations
           latest == LatestDateOf(obs)
       IN \E D \in DOMAIN cl_totals :
            /\ cl_totals[D].sessions
                  < Cardinality({ q \in KeysOf(obs) : latest[q] = D })
            /\ Cardinality({ q \in KeysOf(obs) : latest[q] = D })
                  < Cardinality({ r \in obs : latest[r.key] = D })

\* C5: every deduplicated request lands in exactly one date bucket, the
\* local calendar date of the latest timestamp among the observations of
\* its key ("Z" read as +00:00, no offset read as UTC, the instant converted
\* to local time): a date has an entry iff some key lands on it, and its
\* total_tokens is the sum of the whole contributions of those keys.
C5_BucketIsLocalDateOfLatestTimestamp ==
    cl_pc = "done" =>
        LET obs == Observations
            latest == LatestDateOf(obs)
            contribution == ContributionOf(obs)
        IN /\ DOMAIN cl_totals = { latest[k] : k \in KeysOf(obs) }
           /\ \A D \in DOMAIN cl_totals :
                cl_totals[D].total_tokens
                    = SumOver({ k \in KeysOf(obs) : latest[k] = D }, contribution)

\* a finished run with a key whose observations straddle local midnight:
\* the later date holds its whole contribution, the earlier date has no entry
C5_Witness ==
    /\ cl_pc = "done"
    /\ LET obs == Observations
           latest == LatestDateOf(obs)
           contribution == ContributionOf(obs)
       IN \E r \in obs :
            /\ LocalDate(r.instant) < latest[r.key]
            /\ LocalDate(r.instant) \notin DOMAIN cl_totals
            /\ contribution[r.key] > 0
            /\ cl_totals[latest[r.key]].total_tokens = contribution[r.key]

\* C9 (as claimed): only lines carrying a non-empty string requestId, a
\* parseable timestamp and a structured message.usage object affect the
\* result, so every dedup record, and every session counted on a date, comes
\* from at least one such line.
C9_OnlyLinesWithUsageCount ==
    cl_pc = "done" =>
        LET complete == { r \in Observations : r.complete }
        IN /\ \A i \in 1..Len(request_usage) :
                <<request_usage[i].session_id, request_usage[i].request_id>>
                    \in KeysOf(complete)
           /\ \A D \in DOMAIN cl_totals :
                cl_totals[D].sessions <= Cardinality({ k[1] : k \in KeysOf(complete) })

\* C3: the provider-B result does not depend on the order of observation:
\* a run that meets the same files in another order, each holding the same
\* lines in another order, returns the same date -> (sessions, total_tokens)
\* mapping (and fails exactly when the first run fails).
C3_ClaudeOrderIndependent ==
    /\ p_pc = "done" => cl_pc = "done" /\ p_totals = cl_totals
    /\ p_pc = "raised" => cl_pc = "raised"

\* the positions of p_order that were read before an earlier line of the
\* same file, or before a file the first run read earlier
C3_Witness ==
    /\ p_pc = "done"
    /\ cl_totals # EmptyDaily
    /\ Len(p_usage) < Len(p_order)
    /\ p_usage # <<>>
    /\ \E i \in 1..Len(p_order) : \E j \in 1..Len(p_order) :
        /\ i < j
        /\ p_order[i][1] = p_order[j][1]
        /\ p_order[i][2] > p_order[j][2]
        /\ LET a == FilesOnDisk[p_order[i][1]].lines[p_order[i][2]]
               b == FilesOnDisk[p_order[j][1]].lines[p_order[j][2]]
           IN /\ IsObservation(a)
              /\ IsObservation(b)
              /\ a.requestId = b.requestId
              /\ a.sessionId = b.sessionId
              /\ a.timestamp # b.timestamp
              /\ a.output_tokens # b.output_tokens

----------------------------------------------------------------------------
(* Combiner and range summarizer properties.                                *)

\* the inputs that have an entry for date D
Having(args, D) == { i \in 1..Len(args) : D \in DOMAIN args[i] }

\* C6: for any number of inputs the combined mapping has the union of the
\* inputs' dates as keys and, per date, the field-wise sums over the inputs
\* having that date; every order of the inputs and every nesting
\* combine(combine(A, B), C), combine(A, combine(B, C)) returns that mapping.
C6_CombineIsFieldwiseSum ==
    call.op \in {"combine", "combine_left", "combine_right"} =>
        /\ DOMAIN ret = UNION { DOMAIN providers[i] : i \in 1..Len(providers) }
        /\ \A D \in DOMAIN ret :
            /\ ret[D].sessions
                  = SumOver(Having(providers, D),
                            [i \in Having(providers, D) |-> providers[i][D].sessions])
            /\ ret[D].total_tokens
                  = SumOver(Having(providers, D),
                            [i \in Having(providers, D) |-> providers[i][D].total_tokens])

\* three mappings with an overlapping date, combined in an order other than
\* the given one or nested
C6_Witness ==
    /\ Len(providers) = 3
    /\ \E D \in DOMAIN ret : Cardinality(Having(providers, D)) >= 2
    /\ \E D \in DOMAIN ret : Cardinality(Having(providers, D)) = 1
    /\ providers[1] # providers[2]
    /\ providers[2] # providers[3]
    /\ \/ call.op = "combine" /\ call.args # providers
       \/ call.op = "combine_left" /\ call.split = 2
       \/ call.op = "combine_right" /\ call.split = 1

\* C7: _sum_range returns the sums of sessions and of total_tokens over
\* exactly the dates d of the mapping with from_date <= d <= to_date, both
\* ends included, and (0, 0) whenever to_date < from_date.
C7_SumRangeInclusive ==
    call.op = "sum_range" =>
        LET daily == call.args[1]
            within == { d \in DOMAIN daily : call.from_date <= d /\ d <= call.to_date }
        IN /\ ret = << SumOver(within, [d \in within |-> daily[d].sessions]),
                       SumOver(within, [d \in within |-> daily[d].total_tokens]) >>
           /\ call.to_date < call.from_date => ret = <<0, 0>>

\* a range whose two ends are dates of the mapping with tokens, with a date
\* of the mapping outside it
C7_Witness ==
    /\ call.op = "sum_range"
    /\ call.from_date < call.to_date
    /\ call.from_date \in DOMAIN call.args[1]
    /\ call.to_date \in DOMAIN call.args[1]
    /\ call.args[1][call.to_date].total_tokens > 0
    /\ call.args[1][call.from_date].total_tokens > 0
    /\ \E d \in DOMAIN call.args[1] : d > call.to_date
    /\ ret[2] > 0

----------------------------------------------------------------------------
(* recalc_dashboard properties, stated on the locals of each run.           *)

\* the runs whose locals hold what lines 302-395 computed
HasData(r) ==
    \/ runs[r].pc \in {"computed", "rendered", "writing", "written"}
    \/ runs[r].pc = "done" /\ runs[r].status = 200

ZeroSummary ==
    [ytd_total_tokens |-> 0, days_with_usage |-> 0, sessions |-> 0,
     highest_single_day |-> 0]

\* the four range results of a run
RangesOf(data) ==
    { data.stats_section.ranges.today, data.stats_section.ranges.current_week,
      data.stats_section.ranges.prev_week, data.stats_section.ranges.prev2_week }

\* C11: a parser whose root directory does not exist returns the empty
\* mapping and raises nothing; with one root missing the combined mapping is
\* the other provider's mapping; with both missing the combined mapping is
\* empty, every range sum is (0, 0) and every summary is all zeros; each
\* availability flag is true exactly when that provider has a row.
C11_MissingRootsDegradeGracefully ==
    \A r \in DOMAIN runs :
        /\ runs[r].pc # "idle" /\ ~HasData(r) =>
               \/ disk.codex.exists /\ disk.codex.raises
               \/ disk.claude.exists /\ disk.claude.raises
        /\ HasData(r) =>
            LET data == runs[r].data
                flags == data.dataset_payload.providers_available
            IN /\ ~disk.codex.exists =>
                      /\ data.codex_daily_all = EmptyDaily
                      /\ data.combined_daily_all = data.claude_daily_all
               /\ ~disk.claude.exists =>
                      /\ data.claude_daily_all = EmptyDaily
                      /\ data.combined_daily_all = data.codex_daily_all
               /\ ~disk.codex.exists /\ ~disk.claude.exists =>
                      /\ data.combined_daily_all = EmptyDaily
                      /\ \A range \in RangesOf(data) : range.sums = <<0, 0>>
                      /\ data.payload.codex = ZeroSummary
                      /\ data.payload.claude = ZeroSummary
                      /\ data.payload.combined = ZeroSummary
                      /\ data.payload.ytd_total_tokens = 0
                      /\ data.payload.days_with_usage = 0
                      /\ data.payload.sessions = 0
               /\ flags.codex <=> data.dataset_payload.codex # <<>>
               /\ flags.claude <=> data.dataset_payload.claude # <<>>
               /\ flags.combined <=> data.dataset_payload.combined # <<>>
               /\ flags.codex <=> data.codex_daily_all # EmptyDaily
               /\ flags.claude <=> data.claude_daily_all # EmptyDaily
               /\ data.payload.providers_available = flags

\* a request answered with 200 while the provider-A root is missing and
\* provider B has usage
C11_Witness ==
    \E r \in DOMAIN runs :
        /\ runs[r].pc = "done"
        /\ runs[r].status = 200
        /\ ~disk.codex.exists
        /\ disk.claude.exists
        /\ runs[r].payload.claude.ytd_total_tokens > 0
        /\ runs[r].payload.providers_available
              = [codex |-> FALSE, claude |-> TRUE, combined |-> TRUE]

\* the dates of the combined table from Jan 1 of today's year to today
YearToDate(data) ==
    { d \in DOMAIN data.combined_daily_all :
        ToOrdinal(YearOf(data.today), 1, 1) <= d /\ d <= data.today }

\* C13: the year-to-date leaderboard holds exactly the combined-table dates
\* from Jan 1 of today's year to today, by total_tokens descending and, among
\* equal totals, by date ascending; the ranks are 1..n in that order; the
\* highest value shown is the first row's total_tokens, the maximum over
\* those dates (0 without any), and highest_single_day of the combined
\* year-to-date summary.
C13_LeaderboardOrder ==
    \A r \in DOMAIN runs :
        HasData(r) =>
            LET data == runs[r].data
                rows == data.rows
                ytd == YearToDate(data)
                highest == data.stats_section.highest
            IN /\ Len(rows) = Cardinality(ytd)
               /\ { rows[i].date : i \in 1..Len(rows) } = ytd
               /\ \A i \in 1..Len(rows) :
                      /\ rows[i].sessions = data.combined_daily_all[rows[i].date].sessions
                      /\ rows[i].total_tokens
                            = data.combined_daily_all[rows[i].date].total_tokens
               /\ \A i, j \in 1..Len(rows) :
                      i < j =>
                          \/ rows[i].total_tokens > rows[j].total_tokens
                          \/ /\ rows[i].total_tokens = rows[j].total_tokens
                             /\ rows[i].date < rows[j].date
               /\ Len(data.tbody) = Len(rows)
               /\ \A i \in 1..Len(rows) :
                      /\ data.tbody[i].rank = i
                      /\ data.tbody[i].date = IsoFormat(rows[i].date)
                      /\ data.tbody[i].total_tokens = rows[i].total_tokens
               /\ rows # <<>> => highest = rows[1].total_tokens
               /\ ytd # {} =>
                      /\ \E d \in ytd : highest = data.combined_daily_all[d].total_tokens
                      /\ \A d \in ytd : highest >= data.combined_daily_all[d].total_tokens
               /\ ytd = {} => highest = 0
               /\ highest = data.payload.combined.highest_single_day

\* a leaderboard with two dates of equal total below a larger one, while
\* the combined table also has a date of last year and one after today
C13_Witness ==
    \E r \in DOMAIN runs :
        /\ runs[r].pc = "done"
        /\ runs[r].status = 200
        /\ LET data == runs[r].data
               rows == data.rows
           IN /\ Len(rows) >= 3
              /\ rows[1].total_tokens > rows[2].total_tokens
              /\ rows[2].total_tokens = rows[3].total_tokens
              /\ rows[2].date < rows[3].date
              /\ \E d \in DOMAIN data.combined_daily_all : d > data.today
              /\ \E d \in DOMAIN data.combined_daily_all :
                     d < ToOrdinal(YearOf(data.today), 1, 1)

\* the dates of a range; none when to_date < from_date
DatesOf(range) == range.from_date..range.to_date

\* the Monday on or before a date: ordinal 1 is a Monday
MondayOf(today) == CHOOSE d \in (today - 6)..today : (d - 1) % 7 = 0

\* C14: for every today the four trailing ranges (today; this week's Monday
\* to yesterday; the previous Monday-Sunday week; the week before it) are
\* pairwise disjoint and cover every date from the Monday two weeks before
\* the current Monday to today, so each date's usage is counted once; on a
\* Monday the current-week range has to_date < from_date and sums (0, 0).
C14_TrailingRangesPartition ==
    \A r \in DOMAIN runs :
        HasData(r) =>
            LET data == runs[r].data
                today == data.today
                ranges == data.stats_section.ranges
                monday == MondayOf(today)
                covered == (monday - 14)..today
                daily == data.combined_daily_all
                within == DOMAIN daily \cap covered
            IN /\ DatesOf(ranges.today) = {today}
               /\ DatesOf(ranges.current_week) = monday..(today - 1)
               /\ DatesOf(ranges.prev_week) = (monday - 7)..(monday - 1)
               /\ DatesOf(ranges.prev2_week) = (monday - 14)..(monday - 8)
               /\ \A a, b \in RangesOf(data) :
                      a # b => DatesOf(a) \cap DatesOf(b) = {}
               /\ UNION { DatesOf(a) : a \in RangesOf(data) } = covered
               /\ \A a \in RangesOf(data) :
                      a.sums = << SumOver(DOMAIN daily \cap DatesOf(a),
                                     [d \in DOMAIN daily \cap DatesOf(a) |-> daily[d].sessions]),
                                  SumOver(DOMAIN daily \cap DatesOf(a),
                                     [d \in DOMAIN daily \cap DatesOf(a) |-> daily[d].total_tokens]) >>
               /\ ranges.today.sums[2] + ranges.current_week.sums[2]
                      + ranges.prev_week.sums[2] + ranges.prev2_week.sums[2]
                    = SumOver(within, [d \in within |-> daily[d].total_tokens])
               /\ today = monday =>
                      /\ ranges.current_week.to_date < ranges.current_week.from_date
                      /\ ranges.current_week.sums = <<0, 0>>

\* a run on a Monday with usage today, on both ends of the previous week
\* and on both ends of the week before it
C14_Witness ==
    \E r \in DOMAIN runs :
        /\ runs[r].pc = "done"
        /\ runs[r].status = 200
        /\ LET data == runs[r].data
               ranges == data.stats_section.ranges
               daily == data.combined_daily_all
           IN /\ IsoFormat(data.today) = <<2025, 12, 29>>
              /\ ranges.current_week.to_date < ranges.current_week.from_date
              /\ ranges.today.sums[2] > 0
              /\ {ranges.prev_week.from_date, ranges.prev_week.to_date} \subseteq DOMAIN daily
              /\ {ranges.prev2_week.from_date, ranges.prev2_week.to_date} \subseteq DOMAIN daily
              /\ ranges.prev_week.sums[1] = 2
              /\ ranges.prev2_week.sums[1] = 2

----------------------------------------------------------------------------
(* Concurrent /recalc requests.                                             *)

\* what a run that reads today as t computes when it runs alone
SoloData(t) ==
    RecalcData(t, CollectCodexDailyTotals(disk.codex).totals,
               CollectClaudeDailyTotals(disk.claude).totals)

\* the daily tables, range sums and payload of every run are those of a run
\* that is alone with the same today, and the payload sent is the run's own
RunsComputeSoloData ==
    \A r \in DOMAIN runs :
        HasData(r) =>
            /\ runs[r].data.today \in ServerDays
            /\ runs[r].data = SoloData(runs[r].data.today)
            /\ runs[r].pc = "done" => runs[r].payload = runs[r].data.payload

\* the files a single run leaves behind, on any of the days
SoloFiles ==
    { Render(page, SoloData(t)) : page \in InitialFiles, t \in ServerDays }

\* every request has been answered and at least one run wrote the file
AllRunsFinished ==
    /\ \A r \in DOMAIN runs : runs[r].pc = "done"
    /\ \E r \in DOMAIN runs : runs[r].status = 200

\* C12: concurrent runs over unchanged logs each compute what they would
\* compute alone, and once all of them have finished the dashboard file is
\* the file some single run would have written.
C12_ConcurrentRunsLeaveASoloFile ==
    /\ RunsComputeSoloData
    /\ AllRunsFinished => html_file \in SoloFiles

----------------------------------------------------------------------------
(* Identity of the objects the combiner and _slice_daily return.            *)

\* ids of the records a dict holds
ValuesOf(h, id) == { h[id].items[d] : d \in DOMAIN h[id].items }

\* a dict of the heap as a mapping date -> (sessions, total_tokens)
TableOf(h, id) ==
    [d \in DOMAIN h[id].items |->
        Daily(h[h[id].items[d]].sessions, h[h[id].items[d]].total_tokens)]

\* what combining the provider tables as they were returns
CombinedProviderTables ==
    CombineDailyTotals([i \in 1..Len(inputs) |-> TableOf(ProviderHeap, inputs[i])])

\* a mapping returned by the combiner: a new dict of new records
IsFreshCombination(id) ==
    /\ id \notin DOMAIN ProviderHeap
    /\ ValuesOf(heap, id) \cap DOMAIN ProviderHeap = {}
    /\ \A d \in DOMAIN heap[id].items : heap[heap[id].items[d]].date = d
    /\ made.mutated \notin DOMAIN ProviderHeap /\ made.mutated \notin ValuesOf(heap, id) =>
           TableOf(heap, id) = CombinedProviderTables

\* C15: _combine_daily_totals leaves every input mapping and every input
\* record unchanged and returns records shared with no input, so combining
\* the same tables again (or a table with itself) gives the same sums and a
\* later change of the result reaches no provider table; _slice_daily returns
\* a new mapping whose values are the input's own record objects, for the
\* dates from from_date to to_date inclusive.
C15_CombineCopiesSliceShares ==
    /\ \A id \in DOMAIN ProviderHeap :
           \/ heap[id] = ProviderHeap[id]
           \/ /\ id = made.mutated
              /\ made.sliced # 0
              /\ id \in ValuesOf(heap, made.sliced)
    /\ made.combined # 0 => IsFreshCombination(made.combined)
    /\ made.again # 0 =>
           /\ IsFreshCombination(made.again)
           /\ made.again # made.combined
           /\ ValuesOf(heap, made.again) \cap ValuesOf(heap, made.combined) = {}
    /\ made.sliced # 0 =>
           /\ made.sliced \notin DOMAIN ProviderHeap
           /\ made.sliced \notin {made.combined, made.again}
           /\ DOMAIN heap[made.sliced].items
                 = { d \in DOMAIN ProviderHeap[made.slice_of].items :
                       made.from_date <= d /\ d <= made.to_date }
           /\ \A d \in DOMAIN heap[made.sliced].items :
                  heap[made.sliced].items[d] = ProviderHeap[made.slice_of].items[d]
           /\ made.mutated \in ValuesOf(heap, made.sliced) =>
                  TableOf(heap, made.slice_of) # TableOf(ProviderHeap, made.slice_of)

\* a table combined with itself and another, a record of the result changed
\* and the tables combined again, and a slice that keeps one date of two
C15_Witness ==
    /\ Len(inputs) = 3
    /\ inputs[1] = inputs[2]
    /\ inputs[3] # inputs[1]
    /\ made.combined # 0
    /\ made.again # 0
    /\ made.combined < made.again
    /\ made.mutated \in ValuesOf(heap, made.combined)
    /\ TableOf(heap, made.combined) # TableOf(heap, made.again)
    /\ made.sliced # 0
    /\ Cardinality(DOMAIN heap[made.sliced].items) = 1
    /\ Cardinality(DOMAIN heap[made.slice_of].items) = 2
    /\ result = made.again

====
